---- MODULE Spec2Model ----
(***************************************************************************)
(* CSV enrichment service: the task lifecycle tracker                      *)
(* (utils/progress_tracker.py), the web boundary and job runner            *)
(* (backend/main.py), the two CSVEnrichmentCrew.run variants               *)
(* (agents/csv_enrichment_crew.py, data/csv_enrichment_crew.py) and the    *)
(* deterministic fallback (_apply_enrichments_fallback).                   *)
(*                                                                         *)
(* Five specifications share the definitions of this module:               *)
(*   Spec          the service: upload, status, download, the runner of    *)
(*                 each job step by step, a restart of the host process;   *)
(*   SpecFallback  one run of _apply_enrichments_fallback, step by step,   *)
(*                 over every small input table;                           *)
(*   SpecTracker   the runner with _save_state in its two steps (open,     *)
(*                 json.dump), writes that can fail, a reading process;    *)
(*   SpecLive      submissions and runners under fair scheduling, while    *)
(*                 the host process keeps running;                         *)
(*   SpecCalls     the tracker's methods called in any order with any      *)
(*                 arguments.                                              *)
(***************************************************************************)
EXTENDS Integers, Sequences, FiniteSets, TLC

VARIABLES
    active_tasks,   \* backend/main.py:34  task_id -> registry entry (in memory)
    disk,           \* data/progress/<task_id>.json  task_id -> persisted record
    tracker,        \* the runner's ProgressTracker object of each job (in memory)
    pc,             \* position of each job's background task in process_file
    crew,           \* the CSVEnrichmentCrew object of each job (variant, retry_count)
    exc,            \* the exception in flight in each job's runner
    uploads,        \* data/<uuid>_<filename>: the saved input file of each job
    outputs,        \* data/enriched_<uuid>_<name>: the output file of each job
    response,       \* the last HTTP response sent by an endpoint
    fb              \* one run of _apply_enrichments_fallback (SpecFallback)

vars == <<active_tasks, disk, tracker, pc, crew, exc, uploads, outputs, response, fb>>

svcVars == <<active_tasks, disk, tracker, pc, crew, exc, uploads, outputs, response>>

-----------------------------------------------------------------------------
(* Bounds *)

MaxJobs == 2

MaxRows == 3

-----------------------------------------------------------------------------
(* Values *)

\* Python's None; texts (messages, errors, paths) are sequences of tokens,
\* so that f-strings are concatenations and None differs from every text.
None == <<>>

\* a missing cell (pandas NaN); the other cell values are positive numbers
NaN == 0

Vals == {1, 2}

\* the values a lookup result can carry
LookupVals == {2}

isna(v) == v = NaN

ClusterID == "Cluster ID"

CategoryID == "Category ID"

CategoryLabel == "Category Label"

ProductTitle == "Product Title"

AllCols == {ClusterID, CategoryID, CategoryLabel, ProductTitle}

\* the values a cell of column c can hold in an input table; keyNaN tells
\* whether the grouping key may be missing
CellVals(c, keyNaN) ==
    IF c = ProductTitle THEN {1}
    ELSE IF c = ClusterID /\ ~keyNaN THEN Vals
    ELSE {NaN} \cup Vals

\* a DataFrame: its column set and its rows in order (index 1..n), each row
\* a function from the columns to cell values.  df[c] with c not a column
\* raises KeyError.
Rows(cols, keyNaN) ==
    {r \in [cols -> {NaN} \cup Vals] : \A c \in cols : r[c] \in CellVals(c, keyNaN)}

Tables(cols, n, keyNaN) == [cols : {cols}, rows : [1..n -> Rows(cols, keyNaN)]]

KeyError(c) == <<"KeyError", c>>

Min(S) == CHOOSE x \in S : \A y \in S : x <= y

-----------------------------------------------------------------------------
(* _apply_enrichments_fallback: agents/csv_enrichment_crew.py:244-334 *)

\* df.groupby('Cluster ID'): the group keys (NaN keys are dropped)
GroupKeys(df) == {df.rows[i][ClusterID] : i \in 1..Len(df.rows)} \ {NaN}

\* the row indices of one group, in original row order
GroupIndex(df, k) ==
    LET idx == [i \in 1..Len(df.rows) |-> i]
    IN  SelectSeq(idx, LAMBDA i : df.rows[i][ClusterID] = k)

\* df.at[idx, col] = v
SetCell(df, idx, col, v) == [df EXCEPT !.rows[idx][col] = v]

\* lines 281-294 without the pd.isna tests of lines 285 and 291
FillFromGroup_overwrite(st, idx, category_id, category_label) ==
    [st EXCEPT !.df = SetCell(SetCell(st.df, idx, CategoryID, category_id),
                              idx, CategoryLabel, category_label),
               !.enrichment_count = st.enrichment_count + 2,
               !.rows_processed = st.rows_processed + 1]

\* lines 281-294: one iteration of "for idx in group.index"
FillFromGroup(st, idx, category_id, category_label) ==
    LET idMissing == isna(st.df.rows[idx][CategoryID])
        df1 == IF idMissing THEN SetCell(st.df, idx, CategoryID, category_id)
               ELSE st.df
        n1 == IF idMissing THEN st.enrichment_count + 1 ELSE st.enrichment_count
        labelMissing == isna(df1.rows[idx][CategoryLabel])
        df2 == IF labelMissing THEN SetCell(df1, idx, CategoryLabel, category_label)
               ELSE df1
        n2 == IF labelMissing THEN n1 + 1 ELSE n1
    IN  [st EXCEPT !.df = df2, !.enrichment_count = n2,
                   !.rows_processed = st.rows_processed + 1]

RECURSIVE FillGroup(_, _, _, _)
FillGroup(st, group, category_id, category_label) ==
    IF group = <<>> THEN st
    ELSE FillGroup(FillFromGroup(st, Head(group), category_id, category_label),
                   Tail(group), category_id, category_label)

\* lines 270-271 taking the labelled rows of the whole table, not of the group
CategoryRows_anygroup(df, group) ==
    SelectSeq([i \in 1..Len(df.rows) |-> i],
              LAMBDA i : ~isna(df.rows[i][CategoryLabel]))

\* lines 270-271: the rows of the group that have category information
CategoryRows(df, group) ==
    SelectSeq(group, LAMBDA i : ~isna(df.rows[i][CategoryLabel]))

\* lines 265-294: one iteration of "for cluster_id, group in cluster_groups".
\* st.caught becomes the KeyError of a column the table does not have.
PropagateGroup(st, k) ==
    LET group == GroupIndex(st.df, k)
    IN  IF Len(group) <= 1 THEN st
        ELSE IF CategoryLabel \notin st.df.cols
        THEN [st EXCEPT !.caught = KeyError(CategoryLabel)]
        ELSE LET category_rows == CategoryRows(st.df, group)
             IN  IF category_rows = <<>> THEN st
                 ELSE IF CategoryID \notin st.df.cols
                 THEN [st EXCEPT !.caught = KeyError(CategoryID)]
                 ELSE LET category_row == st.df.rows[category_rows[1]]
                      IN  FillGroup(st, group, category_row[CategoryID],
                                    category_row[CategoryLabel])

\* what self.csv_search_tool(search_query=...) and the two re.search calls
\* give for one row: the call raises, or each pattern matches (a value) or
\* does not (NaN)
LookupOutcomes ==
    [raises : {TRUE}, id : {NaN}, label : {NaN}]
    \cup [raises : {FALSE}, id : {NaN} \cup LookupVals, label : {NaN} \cup LookupVals]

\* lines 297-323 without the try of line 302: a lookup that raises leaves
\* the loop for the except clause of line 327
LookupRow_untried(st, idx, o) ==
    LET row == st.df.rows[idx]
    IN  IF CategoryID \notin st.df.cols
        THEN [st EXCEPT !.caught = KeyError(CategoryID)]
        ELSE IF ~isna(row[CategoryID]) /\ CategoryLabel \notin st.df.cols
        THEN [st EXCEPT !.caught = KeyError(CategoryLabel)]
        ELSE IF ~(isna(row[CategoryID]) \/ isna(row[CategoryLabel])) THEN st
        ELSE LET st1 == [st EXCEPT !.rows_processed = st.rows_processed + 1]
             IN  IF ProductTitle \notin st.df.cols
                 THEN [st1 EXCEPT !.caught = KeyError(ProductTitle)]
                 ELSE IF o.raises THEN [st1 EXCEPT !.caught = <<"LookupError">>]
                 ELSE LET st2 == [st1 EXCEPT !.looked = Append(st1.looked, idx)]
                          fillId == ~o.raises /\ ~isna(o.id) /\ isna(row[CategoryID])
                          df1 == IF fillId
                                 THEN SetCell(st2.df, idx, CategoryID, o.id)
                                 ELSE st2.df
                          n1 == IF fillId THEN st2.enrichment_count + 1
                                ELSE st2.enrichment_count
                          \* without the column, row['Category Label'] raises
                          \* inside the inner try: the row is skipped (line 322)
                          fillLabel == ~o.raises /\ ~isna(o.label)
                                       /\ CategoryLabel \in st.df.cols
                                       /\ isna(row[CategoryLabel])
                          df2 == IF fillLabel
                                 THEN SetCell(df1, idx, CategoryLabel, o.label)
                                 ELSE df1
                          n2 == IF fillLabel THEN n1 + 1 ELSE n1
                      IN  [st2 EXCEPT !.df = df2, !.enrichment_count = n2]

\* lines 297-323: one iteration of "for idx, row in df.iterrows()" with the
\* outcome o of the lookup (used only when the row has a missing cell)
LookupRow(st, idx, o) ==
    LET row == st.df.rows[idx]
    IN  IF CategoryID \notin st.df.cols
        THEN [st EXCEPT !.caught = KeyError(CategoryID)]
        ELSE IF ~isna(row[CategoryID]) /\ CategoryLabel \notin st.df.cols
        THEN [st EXCEPT !.caught = KeyError(CategoryLabel)]
        ELSE IF ~(isna(row[CategoryID]) \/ isna(row[CategoryLabel])) THEN st
        ELSE LET st1 == [st EXCEPT !.rows_processed = st.rows_processed + 1]
             IN  IF ProductTitle \notin st.df.cols
                 THEN [st1 EXCEPT !.caught = KeyError(ProductTitle)]
                 ELSE LET st2 == [st1 EXCEPT !.looked = Append(st1.looked, idx)]
                          fillId == ~o.raises /\ ~isna(o.id) /\ isna(row[CategoryID])
                          df1 == IF fillId
                                 THEN SetCell(st2.df, idx, CategoryID, o.id)
                                 ELSE st2.df
                          n1 == IF fillId THEN st2.enrichment_count + 1
                                ELSE st2.enrichment_count
                          \* without the column, row['Category Label'] raises
                          \* inside the inner try: the row is skipped (line 322)
                          fillLabel == ~o.raises /\ ~isna(o.label)
                                       /\ CategoryLabel \in st.df.cols
                                       /\ isna(row[CategoryLabel])
                          df2 == IF fillLabel
                                 THEN SetCell(df1, idx, CategoryLabel, o.label)
                                 ELSE df1
                          n2 == IF fillLabel THEN n1 + 1 ELSE n1
                      IN  [st2 EXCEPT !.df = df2, !.enrichment_count = n2]

-----------------------------------------------------------------------------
(* One run of the fallback, step by step (SpecFallback) *)

\* a file holding a table, or one pd.read_csv cannot parse (an empty file)
CsvFile(df) == [readable |-> TRUE, df |-> df]

Unreadable == [readable |-> FALSE, df |-> [cols |-> {}, rows |-> <<>>]]

\* the input files of SpecFallback: every table of at most MaxRows rows with
\* all four columns and no missing grouping key, the tables of at most 2
\* rows with missing grouping keys or lacking one column, and the
\* unreadable file
FallbackInputs ==
    {CsvFile(t) : t \in UNION {Tables(AllCols, n, FALSE) : n \in 0..MaxRows}}
    \cup {CsvFile(t) : t \in UNION {Tables(AllCols, n, TRUE) : n \in 1..2}}
    \cup {CsvFile(t) : t \in UNION {Tables(AllCols \ {c}, n, TRUE) :
                                      c \in AllCols, n \in 1..2}}
    \cup {Unreadable}

FbIdle ==
    [pc |-> "idle", input |-> Unreadable, df |-> Unreadable.df,
     enrichment_count |-> 0, rows_processed |-> 0, keys |-> {}, cursor |-> 1,
     looked |-> <<>>, caught |-> None, exc |-> None,
     saved |-> Unreadable]

FbStart(file) == [FbIdle EXCEPT !.pc = "read", !.input = file]

\* the loop of lines 297-323 is entered only for a table with rows
Pass2Entry(df) == IF Len(df.rows) = 0 THEN "save" ELSE "pass2"

\* line 254: df = pd.read_csv(self.input_csv_path), outside the try block
FbRead ==
    /\ fb.pc = "read"
    /\ fb' = IF fb.input.readable
             THEN [fb EXCEPT !.pc = "groupby", !.df = fb.input.df]
             ELSE [fb EXCEPT !.pc = "raised", !.exc = <<"EmptyDataError">>]
    /\ UNCHANGED svcVars

\* line 262: cluster_groups = df.groupby('Cluster ID')
FbGroupBy ==
    /\ fb.pc = "groupby"
    /\ fb' = IF ClusterID \notin fb.df.cols
             THEN [fb EXCEPT !.pc = "save", !.caught = KeyError(ClusterID)]
             ELSE [fb EXCEPT !.keys = GroupKeys(fb.df),
                             !.pc = IF GroupKeys(fb.df) = {}
                                    THEN Pass2Entry(fb.df) ELSE "pass1"]
    /\ UNCHANGED svcVars

\* lines 265-294 with the loop of line 297 entered after the first group
FbPropagate_once ==
    /\ fb.pc = "pass1"
    /\ LET k == Min(fb.keys)
           st == PropagateGroup(fb, k)
       IN  fb' = IF st.caught # None THEN [st EXCEPT !.pc = "save"]
                 ELSE [st EXCEPT !.pc = Pass2Entry(st.df)]
    /\ UNCHANGED svcVars

\* lines 265-294: the next group, in the order of the keys
FbPropagate ==
    /\ fb.pc = "pass1"
    /\ LET k == Min(fb.keys)
           st == PropagateGroup(fb, k)
       IN  fb' = IF st.caught # None THEN [st EXCEPT !.pc = "save"]
                 ELSE [st EXCEPT !.keys = fb.keys \ {k},
                                 !.pc = IF fb.keys = {k}
                                        THEN Pass2Entry(st.df) ELSE "pass1"]
    /\ UNCHANGED svcVars

\* lines 297-323: the next row of df.iterrows()
FbLookup ==
    /\ fb.pc = "pass2"
    /\ \E o \in LookupOutcomes :
         LET st == LookupRow(fb, fb.cursor, o)
         IN  fb' = IF st.caught # None THEN [st EXCEPT !.pc = "save"]
                   ELSE [st EXCEPT !.cursor = fb.cursor + 1,
                                   !.pc = IF fb.cursor = Len(fb.df.rows)
                                          THEN "save" ELSE "pass2"]
    /\ UNCHANGED svcVars

\* line 333: df.to_csv(self.output_csv_path), outside the try block; the
\* write can fail (OSError), and then the exception leaves the fallback
FbSave ==
    /\ fb.pc = "save"
    /\ \E ok \in BOOLEAN :
         fb' = IF ok THEN [fb EXCEPT !.pc = "done", !.saved = CsvFile(fb.df)]
               ELSE [fb EXCEPT !.pc = "raised", !.exc = <<"OSError">>]
    /\ UNCHANGED svcVars

NextFallback == FbRead \/ FbGroupBy \/ FbPropagate \/ FbLookup \/ FbSave

-----------------------------------------------------------------------------
(* ProgressTracker: utils/progress_tracker.py *)

Jobs == 1..MaxJobs

\* line 39 without the clamp
Clamp_none(progress) == progress

\* __init__ that takes the tracker for one already at work
ProgressTracker_started ==
    [status |-> "processing", progress |-> 0,
     message |-> <<"Starting task...">>, result |-> None, error |-> None]

\* progress is held in hundredths: 0.05 is 5, 1.0 is 100
Clamp(progress) ==
    IF progress < 0 THEN 0 ELSE IF progress > 100 THEN 100 ELSE progress

\* __init__, lines 16-22: the fields of a new tracker (start_time and the
\* elapsed_time derived from it are clock readings and are left out)
ProgressTracker ==
    [status |-> "initializing", progress |-> 0,
     message |-> <<"Starting task...">>, result |-> None, error |-> None]

\* update that reports the end when progress reaches 1.0
update_completing(t, progress, message) ==
    [t EXCEPT !.progress = Clamp(progress), !.message = message,
              !.status = IF progress >= 100 THEN "completed" ELSE "processing"]

\* update, lines 39-41 (every caller leaves status at its default)
update(t, progress, message) ==
    [t EXCEPT !.progress = Clamp(progress), !.message = message,
              !.status = "processing"]

\* complete, lines 51-54
complete(t, result) ==
    [t EXCEPT !.progress = 100, !.status = "completed",
              !.message = <<"Task completed successfully">>,
              !.result = result]

\* fail without line 66
fail_unrecorded(t, error) ==
    [t EXCEPT !.status = "failed", !.message = <<"Task failed: ">> \o error]

\* fail, lines 64-66
fail(t, error) ==
    [t EXCEPT !.status = "failed", !.message = <<"Task failed: ">> \o error,
              !.error = error]

\* _save_state with one record file for all tasks instead of the file named
\* by line 91
save_state_shared(d, task_id, t) == [k \in DOMAIN d \cup {task_id} |-> t]

\* _save_state, lines 90-94: the record files after tracker t of task_id
\* has written its state
save_state(d, task_id, t) ==
    [k \in DOMAIN d \cup {task_id} |-> IF k = task_id THEN t ELSE d[k]]

\* the content of a record file that open(file_path, "w") has truncated and
\* json.dump has not, or not fully, written: no complete JSON document
Truncated == [json |-> "incomplete"]

\* _save_state, line 93: open(file_path, "w") creates or truncates the file
save_state_open(d, task_id) ==
    [k \in DOMAIN d \cup {task_id} |-> IF k = task_id THEN Truncated ELSE d[k]]

\* what json.load raises on such a file
JSONDecodeError == [raised |-> "JSONDecodeError"]

\* get_task_state, lines 107-113
get_task_state(d, task_id) ==
    IF task_id \notin DOMAIN d THEN None
    ELSE IF d[task_id] = Truncated THEN JSONDecodeError
    ELSE d[task_id]

-----------------------------------------------------------------------------
(* The web boundary: backend/main.py *)

\* self.output_csv_path: a fresh name per crew object
OutputPath(j) == <<"data/enriched_", ToString(j)>>

\* FileHandler.save_uploaded_file: a fresh name per upload
UploadPath(j) == <<"data/", ToString(j)>>

ColumnOrder == <<ProductTitle, ClusterID, CategoryID, CategoryLabel>>

\* df.columns[-2:].tolist()
LastTwoColumns(df) ==
    LET cs == SelectSeq(ColumnOrder, LAMBDA c : c \in df.cols)
    IN  IF Len(cs) <= 2 THEN cs ELSE SubSeq(cs, Len(cs) - 1, Len(cs))

\* the tables a client submits to the service: a group of two rows (one
\* with, one without category values) and a lone row without them ...
MixedTable ==
    [cols |-> AllCols,
     rows |-> << [c \in AllCols |-> 1],
                 [c \in AllCols |-> IF c \in {CategoryID, CategoryLabel}
                                   THEN NaN ELSE 1],
                 [c \in AllCols |-> IF c \in {CategoryID, CategoryLabel}
                                   THEN NaN ELSE IF c = ClusterID THEN 2 ELSE 1] >>]

\* ... and a table without the grouping column
NoKeyTable ==
    [cols |-> AllCols \ {ClusterID},
     rows |-> << [c \in AllCols \ {ClusterID} |->
                    IF c \in {CategoryID, CategoryLabel} THEN NaN ELSE 1] >>]

\* the requests a client sends to POST /upload: the file name's suffix, the
\* file's content and the category_columns parameter (None: not given)
Submissions ==
    { [csv |-> TRUE, file |-> CsvFile(MixedTable), category_columns |-> None],
      [csv |-> TRUE, file |-> CsvFile(NoKeyTable),
       category_columns |-> <<"Brand">>],
      [csv |-> TRUE, file |-> Unreadable,
       category_columns |-> <<CategoryID, CategoryLabel>>],
      [csv |-> TRUE, file |-> Unreadable, category_columns |-> None],
      [csv |-> FALSE, file |-> CsvFile(MixedTable),
       category_columns |-> <<CategoryID, CategoryLabel>>] }

\* the response of the request handled in the last step; a step that is not
\* the handling of a request leaves NoResponse
NoResponse ==
    [op |-> "none", task_id |-> 0, code |-> 0, detail |-> None, body |-> None]

HTTPException(op, task_id, status_code, detail) ==
    [op |-> op, task_id |-> task_id, code |-> status_code,
     detail |-> <<detail>>, body |-> None]

Ok(op, task_id, body) ==
    [op |-> op, task_id |-> task_id, code |-> 200, detail |-> None, body |-> body]

\* uuid.uuid4(): an id no task has had
FreshId == Min({j \in Jobs : pc[j] = "idle"})

\* upload_file, lines 58-100
upload_file(sub) ==
    /\ \E j \in Jobs : pc[j] = "idle"
    /\ LET task_id == FreshId
       IN  IF ~sub.csv
           THEN /\ response' = HTTPException("upload", 0, 400,
                                             "Only CSV files are supported")
                /\ UNCHANGED <<active_tasks, disk, pc, uploads>>
           ELSE IF sub.category_columns = None /\ ~sub.file.readable
           THEN \* line 77: FileHandler.read_csv raises; the server answers 500
                /\ response' = HTTPException("upload", 0, 500,
                                             "Internal Server Error")
                /\ UNCHANGED <<active_tasks, disk, pc, uploads>>
           ELSE LET cat_cols == IF sub.category_columns # None
                                THEN sub.category_columns
                                ELSE LastTwoColumns(sub.file.df)
                IN  /\ uploads' = [k \in DOMAIN uploads \cup {task_id} |->
                                     IF k = task_id THEN sub.file ELSE uploads[k]]
                    /\ disk' = save_state(disk, task_id, ProgressTracker)
                    /\ active_tasks' =
                         [k \in DOMAIN active_tasks \cup {task_id} |->
                            IF k = task_id
                            THEN [input_file |-> UploadPath(task_id),
                                  category_columns |-> cat_cols,
                                  status |-> "initializing",
                                  output_file |-> None]
                            ELSE active_tasks[k]]
                    /\ pc' = [pc EXCEPT ![task_id] = "queued"]
                    /\ response' = Ok("upload", task_id, None)
    /\ UNCHANGED <<tracker, crew, exc, outputs, fb>>

\* get_task_status, lines 114-123
get_task_status(task_id) ==
    /\ response' =
         IF task_id \notin DOMAIN active_tasks
         THEN HTTPException("status", task_id, 404, "Task not found")
         ELSE LET state == get_task_state(disk, task_id)
              IN  IF state = JSONDecodeError
                  THEN HTTPException("status", task_id, 500,
                                     "Internal Server Error")
                  ELSE IF state = None
                  THEN HTTPException("status", task_id, 404,
                                     "Task state not found")
                  ELSE Ok("status", task_id, state)
    /\ UNCHANGED <<active_tasks, disk, tracker, pc, crew, exc, uploads, outputs, fb>>

\* os.path.exists(path) for an output path
exists(files, path) == \E j \in DOMAIN files : OutputPath(j) = path

\* download_file without the test of lines 147-148
download_file_unchecked(task_id) ==
    /\ response' =
         IF task_id \notin DOMAIN active_tasks
         THEN HTTPException("download", task_id, 404, "Task not found")
         ELSE LET state == get_task_state(disk, task_id)
              IN  IF state = JSONDecodeError
                  THEN HTTPException("download", task_id, 500,
                                     "Internal Server Error")
                  ELSE IF state = None
                  THEN HTTPException("download", task_id, 404,
                                     "Task state not found")
                  ELSE IF ~exists(outputs, OutputPath(task_id))
                  THEN HTTPException("download", task_id, 404,
                                     "Output file not found")
                  ELSE Ok("download", task_id, OutputPath(task_id))
    /\ UNCHANGED <<active_tasks, disk, tracker, pc, crew, exc, uploads, outputs, fb>>

\* download_file, lines 137-161
download_file(task_id) ==
    /\ response' =
         IF task_id \notin DOMAIN active_tasks
         THEN HTTPException("download", task_id, 404, "Task not found")
         ELSE LET state == get_task_state(disk, task_id)
              IN  IF state = JSONDecodeError
                  THEN HTTPException("download", task_id, 500,
                                     "Internal Server Error")
                  ELSE IF state = None
                  THEN HTTPException("download", task_id, 404,
                                     "Task state not found")
                  ELSE IF state.status # "completed"
                  THEN HTTPException("download", task_id, 400,
                                     "Task is not completed yet")
                  ELSE IF state.result = None \/ ~exists(outputs, state.result)
                  THEN HTTPException("download", task_id, 404,
                                     "Output file not found")
                  ELSE Ok("download", task_id, state.result)
    /\ UNCHANGED <<active_tasks, disk, tracker, pc, crew, exc, uploads, outputs, fb>>

-----------------------------------------------------------------------------
(* The job runner: process_file, backend/main.py:163-206, and the two
   CSVEnrichmentCrew.run variants it can be given *)

\* self.progress_tracker.update(progress, message) of job j, then go to `to`
UpdateStep(j, from, to, progress, message) ==
    /\ pc[j] = from
    /\ LET t == update(tracker[j], progress, message)
       IN  /\ tracker' = [tracker EXCEPT ![j] = t]
           /\ disk' = save_state(disk, j, t)
    /\ pc' = [pc EXCEPT ![j] = to]
    /\ response' = NoResponse
    /\ UNCHANGED <<active_tasks, crew, exc, uploads, outputs, fb>>

\* an exception e is raised at a place of job j's runner that process_file's
\* try block covers: control goes to line 200
Raise(j, e) ==
    /\ exc' = [exc EXCEPT ![j] = e]
    /\ pc' = [pc EXCEPT ![j] = "except"]

\* process_file returns: its locals (tracker, crew, e) are gone
Return(j) ==
    /\ pc' = [pc EXCEPT ![j] = "done"]
    /\ tracker' = [k \in DOMAIN tracker \ {j} |-> tracker[k]]
    /\ crew' = [k \in DOMAIN crew \ {j} |-> crew[k]]
    /\ exc' = [exc EXCEPT ![j] = None]

\* line 173: tracker = ProgressTracker(task_id)
process_file_173(j) ==
    /\ pc[j] = "queued"
    /\ tracker' = [k \in DOMAIN tracker \cup {j} |->
                     IF k = j THEN ProgressTracker ELSE tracker[k]]
    /\ disk' = save_state(disk, j, ProgressTracker)
    /\ pc' = [pc EXCEPT ![j] = "177"]
    /\ response' = NoResponse
    /\ UNCHANGED <<active_tasks, crew, exc, uploads, outputs, fb>>

\* line 177
process_file_177(j) ==
    UpdateStep(j, "177", "183", 5, <<"Starting CSV enrichment process...">>)

\* the texts of the exceptions the external collaborators raise
ExternalErrors == {<<"overloaded_error">>, <<"connection refused">>}

\* lines 183-188: crew = CSVEnrichmentCrew(...).  The repository defines the
\* class twice, in agents/ and in data/; the constructor builds the search
\* tool and the agents, which can raise.
process_file_183(j) ==
    /\ pc[j] = "183"
    /\ \/ \E variant \in {"agents", "data"} :
            /\ crew' = [k \in DOMAIN crew \cup {j} |->
                          IF k = j
                          THEN [variant |-> variant, retry_count |-> 0,
                                category_columns |->
                                    active_tasks[j].category_columns,
                                wait_time |-> 0]
                          ELSE crew[k]]
            /\ pc' = [pc EXCEPT ![j] = IF variant = "agents" THEN "A93" ELSE "D88"]
            /\ UNCHANGED exc
       \/ /\ Raise(j, <<"ValidationError">>)
          /\ UNCHANGED crew
    /\ response' = NoResponse
    /\ UNCHANGED <<active_tasks, disk, tracker, uploads, outputs, fb>>

(* run, agents/csv_enrichment_crew.py:79-242 *)

run_agents_93(j) ==
    UpdateStep(j, "A93", "A96", 10, <<"Initializing CSV enrichment crew">>)

run_agents_96(j) == UpdateStep(j, "A96", "A216", 20, <<"Creating tasks">>)

run_agents_216(j) == UpdateStep(j, "A216", "A225", 40, <<"Creating crew">>)

run_agents_225(j) == UpdateStep(j, "A225", "A226", 50, <<"Running crew">>)

\* a file an agent wrote at the output path; its content is the agent's and
\* no operation of the service reads it
AgentFile == [by |-> "agent", file |-> Unreadable]

\* a file df.to_csv wrote at the output path
WrittenFile(by, df) == [by |-> by, file |-> CsvFile(df)]

SetFile(files, j, f) ==
    [k \in DOMAIN files \cup {j} |-> IF k = j THEN f ELSE files[k]]

\* line 226: crew_result = crew.kickoff().  The agents return or raise, and
\* in either case may have written the output file.
run_agents_226(j) ==
    /\ pc[j] = "A226"
    /\ \E created \in BOOLEAN :
         outputs' = IF created THEN SetFile(outputs, j, AgentFile)
                    ELSE outputs
    /\ \/ /\ pc' = [pc EXCEPT ![j] = "A229"]
          /\ UNCHANGED exc
       \/ \E e \in ExternalErrors : Raise(j, e)
    /\ response' = NoResponse
    /\ UNCHANGED <<active_tasks, disk, tracker, crew, uploads, fb>>

run_agents_229(j) == UpdateStep(j, "A229", "A232", 90, <<"Finalizing results">>)

RECURSIVE Pass1(_, _)
\* lines 265-294, every group in the order of the keys
Pass1(st, keys) ==
    IF keys = {} \/ st.caught # None THEN st
    ELSE Pass1(PropagateGroup(st, Min(keys)), keys \ {Min(keys)})

RECURSIVE Pass2(_, _, _)
\* lines 297-323, every row from idx on; lookups[i] is the outcome of the
\* lookup for row i
Pass2(st, idx, lookups) ==
    IF idx > Len(st.df.rows) \/ st.caught # None THEN st
    ELSE Pass2(LookupRow(st, idx, lookups[idx]), idx + 1, lookups)

\* lines 256-330: the try block of the fallback on the table df
FallbackTry(df, lookups) ==
    LET st0 == [FbIdle EXCEPT !.df = df]
    IN  IF ClusterID \notin df.cols
        THEN [st0 EXCEPT !.caught = KeyError(ClusterID)]
        ELSE Pass2(Pass1(st0, GroupKeys(df)), 1, lookups)

\* the lookup outcomes the service is run with: the call raises, finds
\* nothing, or finds both values (SpecFallback runs every outcome)
ServiceLookups == {o \in LookupOutcomes : o.id = o.label}

\* run without lines 232-237: no test for the output file, no fallback
run_agents_232_skipped(j) ==
    /\ pc[j] = "A232"
    /\ pc' = [pc EXCEPT ![j] = "A240"]
    /\ response' = NoResponse
    /\ UNCHANGED <<active_tasks, disk, tracker, crew, exc, uploads, outputs, fb>>

\* lines 232-237 without the test of line 232: the fallback always runs
run_agents_232_unconditional(j) ==
    /\ pc[j] = "A232"
    /\ IF ~uploads[j].readable
       THEN /\ Raise(j, <<"EmptyDataError">>)
            /\ UNCHANGED outputs
       ELSE \E lookups \in [1..Len(uploads[j].df.rows) -> ServiceLookups] :
              /\ outputs' = SetFile(outputs, j,
                                    WrittenFile("fallback",
                                                FallbackTry(uploads[j].df, lookups).df))
              /\ pc' = [pc EXCEPT ![j] = "A240"]
              /\ UNCHANGED exc
    /\ response' = NoResponse
    /\ UNCHANGED <<active_tasks, disk, tracker, crew, uploads, fb>>

\* lines 232-237 with a fallback that raises when a category cell is left
\* missing
run_agents_232_strict(j) ==
    /\ pc[j] = "A232"
    /\ IF ~exists(outputs, OutputPath(j))
       THEN IF ~uploads[j].readable
            THEN /\ Raise(j, <<"EmptyDataError">>)
                 /\ UNCHANGED outputs
            ELSE \E lookups \in [1..Len(uploads[j].df.rows) -> ServiceLookups],
                    written \in BOOLEAN :
                   LET st == FallbackTry(uploads[j].df, lookups)
                   IN  IF \E i \in 1..Len(st.df.rows), c \in st.df.cols :
                              c = CategoryID /\ isna(st.df.rows[i][c])
                       THEN /\ Raise(j, <<"ValueError">>)
                            /\ UNCHANGED outputs
                       ELSE IF written
                       THEN /\ outputs' = SetFile(outputs, j,
                                                  WrittenFile("fallback", st.df))
                            /\ pc' = [pc EXCEPT ![j] = "A240"]
                            /\ UNCHANGED exc
                       ELSE /\ Raise(j, <<"OSError">>)
                            /\ UNCHANGED outputs
       ELSE /\ pc' = [pc EXCEPT ![j] = "A240"]
            /\ UNCHANGED <<exc, outputs>>
    /\ response' = NoResponse
    /\ UNCHANGED <<active_tasks, disk, tracker, crew, uploads, fb>>

\* lines 232-237: the fallback runs when no file is at the output path;
\* _apply_enrichments_fallback (244-334) reads the input (outside its try
\* block), runs the two passes inside it, and writes the table
run_agents_232(j) ==
    /\ pc[j] = "A232"
    /\ IF ~exists(outputs, OutputPath(j))
       THEN IF ~uploads[j].readable
            THEN /\ Raise(j, <<"EmptyDataError">>)
                 /\ UNCHANGED outputs
            ELSE \E lookups \in [1..Len(uploads[j].df.rows) -> ServiceLookups],
                    written \in BOOLEAN :
                   LET st == FallbackTry(uploads[j].df, lookups)
                   IN  IF written
                       THEN /\ outputs' = SetFile(outputs, j,
                                                  WrittenFile("fallback", st.df))
                            /\ pc' = [pc EXCEPT ![j] = "A240"]
                            /\ UNCHANGED exc
                       ELSE /\ Raise(j, <<"OSError">>)
                            /\ UNCHANGED outputs
       ELSE /\ pc' = [pc EXCEPT ![j] = "A240"]
            /\ UNCHANGED <<exc, outputs>>
    /\ response' = NoResponse
    /\ UNCHANGED <<active_tasks, disk, tracker, crew, uploads, fb>>

\* lines 240-242: the last update, then return self.output_csv_path
run_agents_240(j) ==
    UpdateStep(j, "A240", "194", 100, <<"CSV enrichment complete">>)

(* run, data/csv_enrichment_crew.py:80-185 *)

run_data_88(j) ==
    UpdateStep(j, "D88", "D105", 10, <<"Analyzing input CSV file...">>)

run_data_105(j) ==
    UpdateStep(j, "D105", "D127", 30,
               <<"Enriching data with missing categories...">>)

run_data_127(j) ==
    UpdateStep(j, "D127", "D162", 60, <<"Verifying data quality...">>)

\* line 157
max_retries == 3

\* lines 160-162: the loop test, then the first update of the attempt; when
\* the test fails control leaves the loop and run returns None
run_data_162(j) ==
    /\ pc[j] = "D162"
    /\ IF crew[j].retry_count < max_retries
       THEN UpdateStep(j, "D162", "D163", 70,
                       <<"Running CrewAI agents to process data...">>)
       ELSE /\ pc' = [pc EXCEPT ![j] = "194:None"]
            /\ response' = NoResponse
            /\ UNCHANGED <<active_tasks, disk, tracker, crew, exc, uploads,
                           outputs, fb>>

\* line 163: result = crew.kickoff(); an exception goes to line 172
run_data_163(j) ==
    /\ pc[j] = "D163"
    /\ \/ /\ pc' = [pc EXCEPT ![j] = "D166"]
          /\ UNCHANGED exc
       \/ \E e \in ExternalErrors :
            /\ exc' = [exc EXCEPT ![j] = e]
            /\ pc' = [pc EXCEPT ![j] = "D173"]
    /\ response' = NoResponse
    /\ UNCHANGED <<active_tasks, disk, tracker, crew, uploads, outputs, fb>>

run_data_166(j) ==
    UpdateStep(j, "D166", "D167", 90,
               <<"Applying enrichments to the CSV file...">>)

\* the (row, column, value) triples re.findall extracts from the crew's text
MatchLists ==
    { <<>>,
      << [row_idx |-> 1, column |-> CategoryID, value |-> 2],
         [row_idx |-> 0, column |-> ProductTitle, value |-> 2],
         [row_idx |-> 0, column |-> "Brand", value |-> 2],
         [row_idx |-> MaxRows, column |-> CategoryID, value |-> 2] >> }

RECURSIVE ApplyMatches(_, _)
\* lines 210-215: row_idx counts from 0
ApplyMatches(df, matches) ==
    IF matches = <<>> THEN df
    ELSE LET m == Head(matches)
             df1 == IF 0 <= m.row_idx /\ m.row_idx < Len(df.rows)
                       /\ m.column \in df.cols
                    THEN SetCell(df, m.row_idx + 1, m.column, m.value)
                    ELSE df
         IN  ApplyMatches(df1, Tail(matches))

\* line 167: self._apply_enrichments(result.raw), lines 195-225: read the
\* input, apply the matches, write the table; an exception goes to line 172
run_data_167(j) ==
    /\ pc[j] = "D167"
    /\ IF ~uploads[j].readable
       THEN /\ exc' = [exc EXCEPT ![j] = <<"EmptyDataError">>]
            /\ pc' = [pc EXCEPT ![j] = "D173"]
            /\ UNCHANGED outputs
       ELSE \E matches \in MatchLists, written \in BOOLEAN :
              IF written
              THEN /\ outputs' = SetFile(outputs, j,
                                   WrittenFile("apply",
                                               ApplyMatches(uploads[j].df, matches)))
                   /\ pc' = [pc EXCEPT ![j] = "D169"]
                   /\ UNCHANGED exc
              ELSE /\ exc' = [exc EXCEPT ![j] = <<"OSError">>]
                   /\ pc' = [pc EXCEPT ![j] = "D173"]
                   /\ UNCHANGED outputs
    /\ response' = NoResponse
    /\ UNCHANGED <<active_tasks, disk, tracker, crew, uploads, fb>>

\* lines 169-170: the last update, then return self.output_csv_path
run_data_169(j) ==
    UpdateStep(j, "D169", "194", 100, <<"CSV enrichment completed successfully">>)

\* "overloaded_error" in error_message
Contains(text, token) == \E i \in 1..Len(text) : text[i] = token

\* lines 172-185 without the test of the attempt cap at line 176
run_data_173_uncapped(j) ==
    /\ pc[j] = "D173"
    /\ LET retry_count == crew[j].retry_count + 1
           error_message == exc[j]
           retry == Contains(error_message, "overloaded_error")
           wait_time == 5 * retry_count
           message ==
               IF retry
               THEN <<"Anthropic API overloaded. Retrying in ",
                      ToString(wait_time), " seconds... (Attempt ",
                      ToString(retry_count), "/", ToString(max_retries), ")">>
               ELSE IF retry_count >= max_retries
               THEN <<"Failed after ", ToString(max_retries),
                      " attempts. Last error: ">> \o error_message
               ELSE <<"Error: ">> \o error_message
           t == update(tracker[j], 70, message)
       IN  /\ tracker' = [tracker EXCEPT ![j] = t]
           /\ disk' = save_state(disk, j, t)
           /\ crew' = [crew EXCEPT ![j].retry_count = retry_count,
                                   ![j].wait_time =
                                       IF retry THEN wait_time ELSE @]
           /\ IF retry
              THEN \* time.sleep(wait_time), then the loop test
                   /\ pc' = [pc EXCEPT ![j] = "D162"]
                   /\ exc' = [exc EXCEPT ![j] = None]
              ELSE \* raise: the exception leaves run
                   /\ pc' = [pc EXCEPT ![j] = "except"]
                   /\ UNCHANGED exc
    /\ response' = NoResponse
    /\ UNCHANGED <<active_tasks, uploads, outputs, fb>>

\* lines 172-185 with a wait that does not grow with the attempt number
run_data_173_flat(j) ==
    /\ pc[j] = "D173"
    /\ LET retry_count == crew[j].retry_count + 1
           error_message == exc[j]
           retry == Contains(error_message, "overloaded_error")
                    /\ retry_count < max_retries
           wait_time == 5
           message ==
               IF retry
               THEN <<"Anthropic API overloaded. Retrying in ",
                      ToString(wait_time), " seconds... (Attempt ",
                      ToString(retry_count), "/", ToString(max_retries), ")">>
               ELSE IF retry_count >= max_retries
               THEN <<"Failed after ", ToString(max_retries),
                      " attempts. Last error: ">> \o error_message
               ELSE <<"Error: ">> \o error_message
           t == update(tracker[j], 70, message)
       IN  /\ tracker' = [tracker EXCEPT ![j] = t]
           /\ disk' = save_state(disk, j, t)
           /\ crew' = [crew EXCEPT ![j].retry_count = retry_count,
                                   ![j].wait_time =
                                       IF retry THEN wait_time ELSE @]
           /\ IF retry
              THEN \* time.sleep(wait_time), then the loop test
                   /\ pc' = [pc EXCEPT ![j] = "D162"]
                   /\ exc' = [exc EXCEPT ![j] = None]
              ELSE \* raise: the exception leaves run
                   /\ pc' = [pc EXCEPT ![j] = "except"]
                   /\ UNCHANGED exc
    /\ response' = NoResponse
    /\ UNCHANGED <<active_tasks, uploads, outputs, fb>>

\* lines 172-185 without the increment of line 173
run_data_173_uncounted(j) ==
    /\ pc[j] = "D173"
    /\ LET retry_count == crew[j].retry_count
           error_message == exc[j]
           retry == Contains(error_message, "overloaded_error")
                    /\ retry_count < max_retries
           wait_time == 5 * retry_count
           message ==
               IF retry
               THEN <<"Anthropic API overloaded. Retrying in ",
                      ToString(wait_time), " seconds... (Attempt ",
                      ToString(retry_count), "/", ToString(max_retries), ")">>
               ELSE IF retry_count >= max_retries
               THEN <<"Failed after ", ToString(max_retries),
                      " attempts. Last error: ">> \o error_message
               ELSE <<"Error: ">> \o error_message
           t == update(tracker[j], 70, message)
       IN  /\ tracker' = [tracker EXCEPT ![j] = t]
           /\ disk' = save_state(disk, j, t)
           /\ crew' = [crew EXCEPT ![j].retry_count = retry_count,
                                   ![j].wait_time =
                                       IF retry THEN wait_time ELSE @]
           /\ IF retry
              THEN \* time.sleep(wait_time), then the loop test
                   /\ pc' = [pc EXCEPT ![j] = "D162"]
                   /\ exc' = [exc EXCEPT ![j] = None]
              ELSE \* raise: the exception leaves run
                   /\ pc' = [pc EXCEPT ![j] = "except"]
                   /\ UNCHANGED exc
    /\ response' = NoResponse
    /\ UNCHANGED <<active_tasks, uploads, outputs, fb>>

\* lines 172-185: the except clause of the retry loop
run_data_173(j) ==
    /\ pc[j] = "D173"
    /\ LET retry_count == crew[j].retry_count + 1
           error_message == exc[j]
           retry == Contains(error_message, "overloaded_error")
                    /\ retry_count < max_retries
           wait_time == 5 * retry_count
           message ==
               IF retry
               THEN <<"Anthropic API overloaded. Retrying in ",
                      ToString(wait_time), " seconds... (Attempt ",
                      ToString(retry_count), "/", ToString(max_retries), ")">>
               ELSE IF retry_count >= max_retries
               THEN <<"Failed after ", ToString(max_retries),
                      " attempts. Last error: ">> \o error_message
               ELSE <<"Error: ">> \o error_message
           t == update(tracker[j], 70, message)
       IN  /\ tracker' = [tracker EXCEPT ![j] = t]
           /\ disk' = save_state(disk, j, t)
           /\ crew' = [crew EXCEPT ![j].retry_count = retry_count,
                                   ![j].wait_time =
                                       IF retry THEN wait_time ELSE @]
           /\ IF retry
              THEN \* time.sleep(wait_time), then the loop test
                   /\ pc' = [pc EXCEPT ![j] = "D162"]
                   /\ exc' = [exc EXCEPT ![j] = None]
              ELSE \* raise: the exception leaves run
                   /\ pc' = [pc EXCEPT ![j] = "except"]
                   /\ UNCHANGED exc
    /\ response' = NoResponse
    /\ UNCHANGED <<active_tasks, uploads, outputs, fb>>

(* process_file, after crew.run() *)

\* line 194: tracker.complete(output_file); output_file is what run
\* returned, self.output_csv_path or None
process_file_194(j) ==
    /\ pc[j] \in {"194", "194:None"}
    /\ LET output_file == IF pc[j] = "194" THEN OutputPath(j) ELSE None
           t == complete(tracker[j], output_file)
       IN  /\ tracker' = [tracker EXCEPT ![j] = t]
           /\ disk' = save_state(disk, j, t)
    /\ pc' = [pc EXCEPT ![j] = "197"]
    /\ response' = NoResponse
    /\ UNCHANGED <<active_tasks, crew, exc, uploads, outputs, fb>>

\* lines 197-198 with a further tracker.update after tracker.complete
process_file_197_update(j) ==
    /\ pc[j] = "197"
    /\ active_tasks' = [active_tasks EXCEPT ![j].status = "completed",
                                            ![j].output_file = tracker[j].result]
    /\ disk' = save_state(disk, j, update(tracker[j], 100, <<"Done">>))
    /\ Return(j)
    /\ response' = NoResponse
    /\ UNCHANGED <<uploads, outputs, fb>>

\* lines 197-198
process_file_197(j) ==
    /\ pc[j] = "197"
    /\ active_tasks' = [active_tasks EXCEPT ![j].status = "completed",
                                            ![j].output_file = tracker[j].result]
    /\ Return(j)
    /\ response' = NoResponse
    /\ UNCHANGED <<disk, uploads, outputs, fb>>

\* lines 200-202: except Exception as e: tracker.fail(str(e))
process_file_202(j) ==
    /\ pc[j] = "except"
    /\ LET t == fail(tracker[j], exc[j])
       IN  /\ tracker' = [tracker EXCEPT ![j] = t]
           /\ disk' = save_state(disk, j, t)
    /\ pc' = [pc EXCEPT ![j] = "205"]
    /\ response' = NoResponse
    /\ UNCHANGED <<active_tasks, crew, exc, uploads, outputs, fb>>

\* lines 205-206: the entry gets status "failed" and a new key "error"
process_file_205(j) ==
    /\ pc[j] = "205"
    /\ active_tasks' =
         [active_tasks EXCEPT ![j] =
            [k \in DOMAIN @ \cup {"error"} |->
               IF k = "status" THEN "failed"
               ELSE IF k = "error" THEN exc[j] ELSE @[k]]]
    /\ Return(j)
    /\ response' = NoResponse
    /\ UNCHANGED <<disk, uploads, outputs, fb>>

\* the host process stops and starts again: what it held in memory (the
\* registry, the trackers, the background tasks) is gone, the files stay
Restart ==
    /\ \E j \in Jobs : pc[j] # "idle"
    /\ active_tasks' = <<>>
    /\ tracker' = <<>>
    /\ crew' = <<>>
    /\ exc' = [j \in Jobs |-> None]
    /\ pc' = [j \in Jobs |-> IF pc[j] \in {"idle", "done", "killed"}
                             THEN pc[j] ELSE "killed"]
    /\ response' = NoResponse
    /\ UNCHANGED <<disk, uploads, outputs, fb>>

-----------------------------------------------------------------------------
(* The tracker's writes step by step (SpecTracker).  _save_state opens the
   record file, which truncates it (line 93), then json.dump writes it
   (line 94); either call can raise OSError.  process_file is a coroutine
   without an await (backend/main.py:163-206) and upload_file has none
   after line 62, so the event loop runs a runner from its first step to
   its last and serves a request only between runners; a process other than
   the backend can read a record file at any time.  The crew is the one
   backend/main.py imports (agents/); the files it reads and writes are
   left out here. *)

\* the positions at which a job holds the event loop at no step
Parked == {"idle", "queued", "done", "crashed", "rejected"}

LoopFree == \A j \in Jobs : pc[j] \in Parked

\* the event loop can run a step of job j
Turn(j) == \A k \in Jobs \ {j} : pc[k] \in Parked

\* a tracker method of job j called at `from`: the fields are assigned (the
\* object becomes t), then _save_state runs line 93; an OSError goes to
\* `handler`
WriteOpen(j, from, mid, t, handler) ==
    /\ pc[j] = from
    /\ Turn(j)
    /\ tracker' = [k \in DOMAIN tracker \cup {j} |->
                     IF k = j THEN t ELSE tracker[k]]
    /\ \/ /\ disk' = save_state_open(disk, j)
          /\ pc' = [pc EXCEPT ![j] = mid]
          /\ UNCHANGED exc
       \/ /\ exc' = [exc EXCEPT ![j] = <<"OSError">>]
          /\ pc' = [pc EXCEPT ![j] = handler]
          /\ UNCHANGED disk
    /\ response' = NoResponse
    /\ UNCHANGED <<active_tasks, crew, uploads, outputs, fb>>

\* _save_state, line 94: json.dump(state, f), and the close of the file
WriteDump(j, mid, to, handler) ==
    /\ pc[j] = mid
    /\ \/ /\ disk' = save_state(disk, j, tracker[j])
          /\ pc' = [pc EXCEPT ![j] = to]
          /\ UNCHANGED exc
       \/ /\ exc' = [exc EXCEPT ![j] = <<"OSError">>]
          /\ pc' = [pc EXCEPT ![j] = handler]
          /\ UNCHANGED disk
    /\ response' = NoResponse
    /\ UNCHANGED <<active_tasks, tracker, crew, uploads, outputs, fb>>

\* the submission of SpecTracker
TrackedSubmission ==
    [csv |-> TRUE, file |-> CsvFile(MixedTable), category_columns |-> None]

\* upload_file, lines 58-81: ProgressTracker(task_id) up to line 93 of
\* _save_state; an exception of the handler is answered with 500
TwUploadOpen ==
    /\ LoopFree
    /\ \E j \in Jobs : pc[j] = "idle"
    /\ LET task_id == FreshId
       IN  \/ /\ disk' = save_state_open(disk, task_id)
              /\ pc' = [pc EXCEPT ![task_id] = "81:94"]
              /\ response' = NoResponse
           \/ /\ pc' = [pc EXCEPT ![task_id] = "rejected"]
              /\ response' = HTTPException("upload", 0, 500,
                                           "Internal Server Error")
              /\ UNCHANGED disk
    /\ UNCHANGED <<active_tasks, tracker, crew, exc, uploads, outputs, fb>>

\* upload_file, line 81 from line 94 of _save_state on, then lines 84-100
TwUploadDump ==
    \E task_id \in Jobs :
        /\ pc[task_id] = "81:94"
        /\ \/ /\ disk' = save_state(disk, task_id, ProgressTracker)
              /\ uploads' = SetFile(uploads, task_id, TrackedSubmission.file)
              /\ active_tasks' =
                   [k \in DOMAIN active_tasks \cup {task_id} |->
                      IF k = task_id
                      THEN [input_file |-> UploadPath(task_id),
                            category_columns |->
                                LastTwoColumns(TrackedSubmission.file.df),
                            status |-> "initializing",
                            output_file |-> None]
                      ELSE active_tasks[k]]
              /\ pc' = [pc EXCEPT ![task_id] = "queued"]
              /\ response' = Ok("upload", task_id, None)
           \/ /\ pc' = [pc EXCEPT ![task_id] = "rejected"]
              /\ response' = HTTPException("upload", 0, 500,
                                           "Internal Server Error")
              /\ UNCHANGED <<disk, uploads, active_tasks>>
        /\ UNCHANGED <<tracker, crew, exc, outputs, fb>>

\* process_file, line 173, outside the try block: an exception leaves the
\* coroutine
TwCreateOpen(j) == WriteOpen(j, "queued", "173:94", ProgressTracker, "crashed")

TwCreateDump(j) == WriteDump(j, "173:94", "177", "crashed")

\* the tracker.update calls of process_file (line 177) and of run (agents/,
\* lines 93, 96, 216, 225, 229, 240), all inside process_file's try block
UpdateSites ==
    { [from |-> "177", mid |-> "177:94", to |-> "183", progress |-> 5,
       message |-> <<"Starting CSV enrichment process...">>],
      [from |-> "A93", mid |-> "A93:94", to |-> "A96", progress |-> 10,
       message |-> <<"Initializing CSV enrichment crew">>],
      [from |-> "A96", mid |-> "A96:94", to |-> "A216", progress |-> 20,
       message |-> <<"Creating tasks">>],
      [from |-> "A216", mid |-> "A216:94", to |-> "A225", progress |-> 40,
       message |-> <<"Creating crew">>],
      [from |-> "A225", mid |-> "A225:94", to |-> "A226", progress |-> 50,
       message |-> <<"Running crew">>],
      [from |-> "A229", mid |-> "A229:94", to |-> "A232", progress |-> 90,
       message |-> <<"Finalizing results">>],
      [from |-> "A240", mid |-> "A240:94", to |-> "194", progress |-> 100,
       message |-> <<"CSV enrichment complete">>] }

TwUpdateOpen(j) ==
    \E s \in UpdateSites :
        WriteOpen(j, s.from, s.mid, update(tracker[j], s.progress, s.message),
                  "except")

TwUpdateDump(j) ==
    \E s \in UpdateSites : WriteDump(j, s.mid, s.to, "except")

\* a call of the runner that writes no record: it returns, or raises one of
\* errors
TwCall(j, from, to, errors) ==
    /\ pc[j] = from
    /\ Turn(j)
    /\ \/ /\ pc' = [pc EXCEPT ![j] = to]
          /\ UNCHANGED exc
       \/ \E e \in errors : Raise(j, e)
    /\ response' = NoResponse
    /\ UNCHANGED <<active_tasks, disk, tracker, crew, uploads, outputs, fb>>

\* process_file, lines 183-188: the constructor of the crew
TwConstruct(j) == TwCall(j, "183", "A93", {<<"ValidationError">>})

\* run, line 226: crew.kickoff()
TwKickoff(j) == TwCall(j, "A226", "A229", ExternalErrors)

\* run, lines 232-237: the test for the output file and the fallback, which
\* raises what its read and its write raise
TwFallback(j) ==
    TwCall(j, "A232", "A240", {<<"EmptyDataError">>, <<"OSError">>})

\* process_file, line 194
TwCompleteOpen(j) ==
    WriteOpen(j, "194", "194:94", complete(tracker[j], OutputPath(j)), "except")

TwCompleteDump(j) == WriteDump(j, "194:94", "197", "except")

\* process_file, line 202, inside the except clause: an exception leaves
\* the coroutine
TwFailOpen(j) ==
    WriteOpen(j, "except", "202:94", fail(tracker[j], exc[j]), "crashed")

TwFailDump(j) == WriteDump(j, "202:94", "205", "crashed")

\* ProgressTracker.get_task_state(task_id) called in another process
TwRead(task_id) ==
    /\ response' = [op |-> "read", task_id |-> task_id, code |-> 0,
                    detail |-> None, body |-> get_task_state(disk, task_id)]
    /\ UNCHANGED <<active_tasks, disk, tracker, pc, crew, exc, uploads, outputs, fb>>

\* GET /tasks/{task_id}/status, served by the backend's event loop
TwStatus(task_id) == LoopFree /\ get_task_status(task_id)

NextTracker ==
    \/ TwUploadOpen
    \/ TwUploadDump
    \/ \E j \in Jobs :
         \/ TwCreateOpen(j) \/ TwCreateDump(j)
         \/ TwUpdateOpen(j) \/ TwUpdateDump(j)
         \/ TwConstruct(j) \/ TwKickoff(j) \/ TwFallback(j)
         \/ TwCompleteOpen(j) \/ TwCompleteDump(j)
         \/ (Turn(j) /\ process_file_197(j))
         \/ TwFailOpen(j) \/ TwFailDump(j)
         \/ (Turn(j) /\ process_file_205(j))
    \/ \E task_id \in Jobs : TwRead(task_id)
    \/ \E task_id \in Jobs : TwStatus(task_id)

-----------------------------------------------------------------------------
(* The tracker's methods called in any order with any arguments (SpecCalls):
   ProgressTracker(task_id), update, complete and fail on the object made
   last for the id, with writes that succeed *)

\* the progress arguments, in hundredths: below 0, inside [0,1], above 1
ProgressArgs == {-50, 0, 50, 100, 150}

MessageArgs == {<<"Running crew">>, <<"Finalizing results">>}

\* a call of a tracker method: its arguments as text, and what the record
\* file of the id held before it
Call(op, task_id, args) ==
    [op |-> op, task_id |-> task_id, code |-> 0, detail |-> args,
     body |-> get_task_state(disk, task_id)]

\* the object becomes t, then _save_state
CallStep(op, task_id, args, t) ==
    /\ tracker' = [k \in DOMAIN tracker \cup {task_id} |->
                     IF k = task_id THEN t ELSE tracker[k]]
    /\ disk' = save_state(disk, task_id, t)
    /\ response' = Call(op, task_id, args)
    /\ UNCHANGED <<active_tasks, pc, crew, exc, uploads, outputs, fb>>

\* __init__, lines 16-28
CallCreate(task_id) == CallStep("create", task_id, None, ProgressTracker)

\* update, lines 39-42
CallUpdate(task_id) ==
    /\ task_id \in DOMAIN tracker
    /\ \E progress \in ProgressArgs, message \in MessageArgs :
         CallStep("update", task_id, <<ToString(progress)>> \o message,
                  update(tracker[task_id], progress, message))

\* complete, lines 51-55
CallComplete(task_id) ==
    /\ task_id \in DOMAIN tracker
    /\ \E result \in {None, OutputPath(task_id)} :
         CallStep("complete", task_id, result,
                  complete(tracker[task_id], result))

\* fail, lines 64-67
CallFail(task_id) ==
    /\ task_id \in DOMAIN tracker
    /\ \E error \in ExternalErrors :
         CallStep("fail", task_id, error, fail(tracker[task_id], error))

NextCalls ==
    \E task_id \in Jobs :
        \/ CallCreate(task_id) \/ CallUpdate(task_id)
        \/ CallComplete(task_id) \/ CallFail(task_id)

-----------------------------------------------------------------------------
(* Specifications *)

Init ==
    /\ active_tasks = <<>>
    /\ disk = <<>>
    /\ tracker = <<>>
    /\ pc = [j \in Jobs |-> "idle"]
    /\ crew = <<>>
    /\ exc = [j \in Jobs |-> None]
    /\ uploads = <<>>
    /\ outputs = <<>>
    /\ response = NoResponse
    /\ fb = FbIdle

Next ==
    \/ \E sub \in Submissions : upload_file(sub)
    \/ \E task_id \in Jobs : get_task_status(task_id)
    \/ \E task_id \in Jobs : download_file(task_id)
    \/ \E j \in Jobs :
         \/ process_file_173(j) \/ process_file_177(j) \/ process_file_183(j)
         \/ run_agents_93(j) \/ run_agents_96(j) \/ run_agents_216(j)
         \/ run_agents_225(j) \/ run_agents_226(j) \/ run_agents_229(j)
         \/ run_agents_232(j) \/ run_agents_240(j)
         \/ run_data_88(j) \/ run_data_105(j) \/ run_data_127(j)
         \/ run_data_162(j) \/ run_data_163(j) \/ run_data_166(j)
         \/ run_data_167(j) \/ run_data_169(j) \/ run_data_173(j)
         \/ process_file_194(j) \/ process_file_197(j)
         \/ process_file_202(j) \/ process_file_205(j)
    \/ Restart

Spec == Init /\ [][Next]_vars

InitFallback ==
    /\ active_tasks = <<>>
    /\ disk = <<>>
    /\ tracker = <<>>
    /\ pc = [j \in Jobs |-> "idle"]
    /\ crew = <<>>
    /\ exc = [j \in Jobs |-> None]
    /\ uploads = <<>>
    /\ outputs = <<>>
    /\ response = NoResponse
    /\ fb \in {FbStart(file) : file \in FallbackInputs}

SpecFallback == InitFallback /\ [][NextFallback]_vars

SpecTracker == Init /\ [][NextTracker]_vars

SpecCalls == Init /\ [][NextCalls]_vars

\* process_file, lines 163-206: the next step of job j's runner
process_file(j) ==
    \/ process_file_173(j) \/ process_file_177(j) \/ process_file_183(j)
    \/ run_agents_93(j) \/ run_agents_96(j) \/ run_agents_216(j)
    \/ run_agents_225(j) \/ run_agents_226(j) \/ run_agents_229(j)
    \/ run_agents_232(j) \/ run_agents_240(j)
    \/ run_data_88(j) \/ run_data_105(j) \/ run_data_127(j)
    \/ run_data_162(j) \/ run_data_163(j) \/ run_data_166(j)
    \/ run_data_167(j) \/ run_data_169(j) \/ run_data_173(j)
    \/ process_file_194(j) \/ process_file_197(j)
    \/ process_file_202(j) \/ process_file_205(j)

\* the service while the host process keeps running: submissions and runners
NextLive ==
    \/ \E sub \in Submissions : upload_file(sub)
    \/ \E j \in Jobs : process_file(j)

\* the event loop runs each background task it was given to its end, and
\* each external call a runner makes returns or raises
SpecLive ==
    Init /\ [][NextLive]_vars /\ \A j \in Jobs : WF_vars(process_file(j))

-----------------------------------------------------------------------------
(* Claims *)

Terminal == {"completed", "failed"}

Known(j) == j \in DOMAIN disk

\* C1: download serves a file only for a job whose persisted status is
\* completed; for a job whose persisted status is initializing, processing
\* or failed, and for an id the system does not know, the answer is an error.
C1_DownloadOnlyCompleted ==
    response.op = "download" =>
        IF /\ pc[response.task_id] # "idle"
           /\ Known(response.task_id)
           /\ disk[response.task_id].status = "completed"
        THEN response.code = 200 =>
                 /\ response.body = disk[response.task_id].result
                 /\ exists(outputs, response.body)
        ELSE response.code \in {400, 404}

\* a download of a failed job was answered with an error
C1_Witness ==
    /\ response.op = "download"
    /\ Known(response.task_id)
    /\ disk[response.task_id].status = "failed"
    /\ response.code = 400

\* C2: when the delegated attempt raises and the exception leaves run, the
\* next step of the runner is tracker.fail: the persisted record gets status
\* failed and the exception text in error, the record then stays as it is,
\* and a download of a job whose record is failed is rejected.
C2_RaiseEndsFailed ==
    [][\A j \in Jobs :
         /\ (pc[j] = "A226" /\ pc'[j] \notin {"A226", "A229", "killed"})
               => pc'[j] = "except" /\ exc'[j] \in ExternalErrors
         /\ (pc[j] = "D173" /\ pc'[j] \notin {"D173", "D162", "killed"})
               => pc'[j] = "except" /\ exc'[j] = exc[j]
         /\ (pc[j] = "except" /\ pc'[j] \notin {"except", "killed"})
               => /\ exc[j] # None
                  /\ pc'[j] = "205"
                  /\ disk'[j].status = "failed"
                  /\ disk'[j].error = exc[j]
         /\ (pc[j] = "205" /\ pc'[j] \notin {"205", "killed"})
               => pc'[j] = "done" /\ disk'[j] = disk[j]
         /\ (Known(j) /\ disk[j].status = "failed") => disk'[j] = disk[j]
         /\ (/\ response'.op = "download" /\ response'.task_id = j
             /\ Known(j) /\ disk[j].status = "failed")
               => response'.code \in {400, 404}
      ]_vars

\* the agents' kickoff raised, the runner recorded the failure, and a
\* download of that job was rejected
C2_Witness ==
    /\ response.op = "download"
    /\ response.code = 400
    /\ Known(response.task_id)
    /\ disk[response.task_id].status = "failed"
    /\ disk[response.task_id].error \in ExternalErrors
    /\ pc[response.task_id] = "done"

\* the try block of the fallback raises on the table, whatever the lookups give
FallbackCaught(df) ==
    \A lookups \in [1..Len(df.rows) -> LookupOutcomes] :
        FallbackTry(df, lookups).caught # None

\* C3: an exception raised inside the fallback is reported through
\* tracker.fail: a job whose fallback raised never has status completed.
C3_FallbackExceptionFails ==
    \A j \in DOMAIN outputs :
        (/\ outputs[j].by = "fallback"
         /\ FallbackCaught(uploads[j].df))
            => disk[j].status # "completed"

\* the fallback of job j ran in this step
FallbackInvoked(j) ==
    /\ pc[j] = "A232"
    /\ pc'[j] \notin {"A232", "killed"}
    /\ \/ pc'[j] = "except"
       \/ /\ j \in DOMAIN outputs'
          /\ outputs'[j].by = "fallback"
          /\ (j \in DOMAIN outputs => outputs'[j] # outputs[j])

\* C4: in the agents' run the fallback is invoked exactly when the delegated
\* attempt returned and no file is at the output path: the step after the
\* kickoff's return invokes it iff there is no file, a file written by the
\* fallback appears in no other step, and after a raised kickoff none appears.
C4_FallbackIffNoArtifact ==
    [][\A j \in Jobs :
         /\ (pc[j] = "A232" /\ pc'[j] \notin {"A232", "killed"})
               => (FallbackInvoked(j) <=> ~exists(outputs, OutputPath(j)))
         /\ (/\ j \in DOMAIN outputs' /\ outputs'[j].by = "fallback"
             /\ (j \notin DOMAIN outputs \/ outputs[j] # outputs'[j]))
               => pc[j] = "A232" /\ j \notin DOMAIN outputs
         /\ (pc[j] \in {"except", "205"} /\ exc[j] \in ExternalErrors)
               => (j \in DOMAIN outputs' => outputs'[j].by # "fallback")
      ]_vars

\* the agents returned without writing the file and the fallback wrote it
C4_Witness ==
    \E j \in DOMAIN outputs : outputs[j].by = "fallback" /\ pc[j] = "A240"

\* C5: the progress values written to a job's record never decrease.
C5_ProgressMonotone ==
    [][\A j \in DOMAIN disk :
         j \in DOMAIN disk' => disk'[j].progress >= disk[j].progress]_vars

\* C6: once a job's record has status completed or failed, no step changes it.
C6_TerminalFrozen ==
    [][\A j \in DOMAIN disk :
         disk[j].status \in Terminal
            => j \in DOMAIN disk' /\ disk'[j] = disk[j]]_vars

\* a job finished, and a later job has run next to its terminal record
C6_Witness ==
    \E j, k \in DOMAIN disk :
        /\ j # k
        /\ disk[j].status = "completed" /\ pc[j] = "done"
        /\ disk[k].status = "failed" /\ pc[k] = "done"

\* C7: the status endpoint returns the persisted record whenever one exists
\* for the id, and not-found exactly when none exists.
C7_StatusReflectsRecord ==
    response.op = "status" =>
        IF Known(response.task_id)
        THEN response.code = 200 /\ response.body = disk[response.task_id]
        ELSE response.code = 404

CategoryColumns == {CategoryID, CategoryLabel}

\* the table the fallback run has read is in fb.df
FbLoaded == fb.pc \notin {"idle", "read"} /\ fb.input.readable

\* group propagation has just finished and no lookup has been issued
AfterPass1 ==
    /\ FbLoaded
    /\ fb.caught = None
    /\ fb.df.cols = AllCols
    /\ \/ fb.pc = "pass2" /\ fb.cursor = 1
       \/ fb.pc = "save" /\ Len(fb.df.rows) = 0

\* some category cell of the table is missing
HasMissing(df) ==
    \E i \in 1..Len(df.rows), c \in CategoryColumns \cap df.cols :
        isna(df.rows[i][c])

\* C8: the fallback never overwrites a category cell that is non-missing in
\* the input, in either pass, and it changes nothing on a table without a
\* missing category cell; the table it writes is the table it computed.
C8_NoOverwrite ==
    FbLoaded =>
        /\ Len(fb.df.rows) = Len(fb.input.df.rows)
        /\ \A i \in 1..Len(fb.df.rows), c \in CategoryColumns \cap fb.df.cols :
              ~isna(fb.input.df.rows[i][c])
                 => fb.df.rows[i][c] = fb.input.df.rows[i][c]
        /\ ~HasMissing(fb.input.df) => fb.df = fb.input.df
        /\ fb.pc = "done" => fb.saved = CsvFile(fb.df)

\* a run that filled a cell in each pass, next to cells that were not missing
C8_Witness ==
    /\ fb.pc = "done"
    /\ fb.df.cols = AllCols
    /\ fb.enrichment_count >= 2
    /\ fb.looked # <<>>
    /\ \E i, k \in 1..Len(fb.df.rows) :
          /\ ~isna(fb.input.df.rows[i][ClusterID])
          /\ ~isna(fb.input.df.rows[i][CategoryLabel])
          /\ isna(fb.input.df.rows[k][CategoryLabel])
          /\ fb.input.df.rows[i][ClusterID] = fb.input.df.rows[k][ClusterID]
          /\ ~isna(fb.df.rows[k][CategoryLabel])

\* C9: after group propagation, in every group of at least 2 rows and for
\* each category column, if some row of the group has a value in that column
\* in the input then every row of the group has one.
C9_GroupFullyFilled ==
    AfterPass1 =>
        \A k \in GroupKeys(fb.input.df), c \in CategoryColumns :
            LET group == GroupIndex(fb.input.df, k)
            IN  (/\ Len(group) >= 2
                 /\ \E n \in 1..Len(group) : ~isna(fb.input.df.rows[group[n]][c]))
                    => \A n \in 1..Len(group) : ~isna(fb.df.rows[group[n]][c])

\* the value of column c in the first row of the group that has one
FirstValue(df, group, c) ==
    LET having == SelectSeq(group, LAMBDA i : ~isna(df.rows[i][c]))
    IN  IF having = <<>> THEN NaN ELSE df.rows[having[1]][c]

\* C10: when rows of a group hold different values in a category column, the
\* value group propagation writes into the group's missing cells of that
\* column is that of the first row of the group, in row order, that has one.
C10_FirstValueWins ==
    AfterPass1 =>
        \A k \in GroupKeys(fb.input.df), c \in CategoryColumns :
            LET group == GroupIndex(fb.input.df, k)
                in == fb.input.df
            IN  (\E m, n \in 1..Len(group) :
                    /\ ~isna(in.rows[group[m]][c])
                    /\ ~isna(in.rows[group[n]][c])
                    /\ in.rows[group[m]][c] # in.rows[group[n]][c])
                  => \A n \in 1..Len(group) :
                        (/\ isna(in.rows[group[n]][c])
                         /\ ~isna(fb.df.rows[group[n]][c]))
                           => fb.df.rows[group[n]][c] = FirstValue(in, group, c)

\* the table as group propagation leaves it
Pass1Table(df) == Pass1([FbIdle EXCEPT !.df = df], GroupKeys(df)).df

\* the rows with a missing category cell, in row order
NeedsLookup(df) ==
    SelectSeq([i \in 1..Len(df.rows) |-> i],
              LAMBDA i : isna(df.rows[i][CategoryID])
                         \/ isna(df.rows[i][CategoryLabel]))

\* C11: in the residual-lookup pass every row that has a missing category
\* cell after group propagation is looked up, whatever the lookups of the
\* rows before it did (raised, found nothing, found values): no lookup ends
\* the pass, the pass goes on to the write of the table, and the only
\* exception that leaves the fallback after the read is that of the write.
C11_LookupFailureSkipsRow ==
    (FbLoaded /\ fb.df.cols = AllCols
        /\ fb.pc \in {"pass2", "save", "done", "raised"}) =>
        LET needing == NeedsLookup(Pass1Table(fb.input.df))
        IN  /\ fb.caught = None
            /\ fb.looked = IF fb.pc = "pass2"
                           THEN SelectSeq(needing, LAMBDA i : i < fb.cursor)
                           ELSE needing
            /\ fb.pc = "raised" => fb.exc = <<"OSError">>
            /\ fb.pc = "done" => fb.saved = CsvFile(fb.df)

\* a row whose lookup gave nothing (it raised or found no candidate) was
\* followed by a row whose lookup filled a cell, and the table was written
C11_Witness ==
    /\ fb.pc = "done"
    /\ fb.df.cols = AllCols
    /\ \E m, n \in 1..Len(fb.looked) :
          /\ m < n
          /\ isna(fb.df.rows[fb.looked[m]][CategoryID])
          /\ isna(fb.df.rows[fb.looked[m]][CategoryLabel])
          /\ isna(Pass1Table(fb.input.df).rows[fb.looked[n]][CategoryID])
          /\ ~isna(fb.df.rows[fb.looked[n]][CategoryID])

\* the names in a list of column names
Designated(category_columns) ==
    {category_columns[i] : i \in 1..Len(category_columns)}

\* C12: the table an enrichment run writes (by the fallback or by
\* _apply_enrichments) has the rows and the columns of the input table, and
\* differs from it only in cells of the job's designated category columns.
C12_FrameOfColumns ==
    \A j \in DOMAIN outputs \cap DOMAIN active_tasks :
        outputs[j].by \in {"fallback", "apply"} =>
            LET in == uploads[j].df
                out == outputs[j].file.df
            IN  /\ Len(out.rows) = Len(in.rows)
                /\ out.cols = in.cols
                /\ \A i \in 1..Len(in.rows), c \in in.cols :
                      out.rows[i][c] # in.rows[i][c]
                         => c \in Designated(active_tasks[j].category_columns)

\* the submission of job j was accepted and its record was created
Created(j) == pc[j] \notin {"idle", "81:94", "rejected"}

\* the positions between line 93 and line 94 of _save_state
MidWrite == {"81:94", "173:94", "194:94", "202:94"} \cup {s.mid : s \in UpdateSites}

\* C13: a tracker write that fails leaves the record of the previous write:
\* when no write of a created job's record is in progress, its record file
\* holds a complete record and not an empty or partial document.
C13_FailedWriteKeepsRecord ==
    \A j \in DOMAIN disk :
        (Created(j) /\ pc[j] \notin MidWrite) => disk[j] # Truncated

\* C14: a read of the record of a created job by another process, at any
\* point of the runner's writes, returns a complete record: never not-found,
\* never an error.
C14_ReadSeesCompleteRecord ==
    (response.op = "read" /\ Created(response.task_id)) =>
        /\ response.body # None
        /\ response.body # JSONDecodeError
        /\ response.body = disk[response.task_id]

\* C15: a job whose runner was ended by a failed tracker write is reported
\* failed to a poller, and a job whose runner caught a failed write does not
\* end completed.
C15_WriteFailureReportedFailed ==
    /\ \A j \in Jobs :
         (pc[j] = "crashed" /\ response.op = "status" /\ response.task_id = j)
            => /\ response.code = 200
               /\ response.body.status = "failed"
    /\ \A j \in DOMAIN active_tasks :
         (pc[j] = "done" /\ "error" \in DOMAIN active_tasks[j])
            => /\ disk[j] # Truncated
               /\ disk[j].status = "failed"

\* C16: in the retrying run, when the attempt that reaches the cap fails
\* with an overloaded error the run raises that error: the loop is never
\* left by its test (run never returns None), no output file has been
\* written, and the runner's next step records the job as failed with the
\* error text.
C16_ExhaustedRetriesRaise ==
    [][\A j \in DOMAIN crew :
         crew[j].variant = "data" =>
           /\ (/\ pc[j] = "D173" /\ pc'[j] \notin {"D173", "killed"}
               /\ Contains(exc[j], "overloaded_error")
               /\ crew[j].retry_count + 1 >= 3)
                 => /\ pc'[j] = "except"
                    /\ exc'[j] = exc[j]
                    /\ j \notin DOMAIN outputs'
           /\ (pc[j] = "D162" /\ pc'[j] \notin {"D162", "killed"})
                 => pc'[j] = "D163"
           /\ pc[j] # "194:None"
           /\ (/\ pc[j] = "except" /\ pc'[j] \notin {"except", "killed"}
               /\ crew[j].retry_count = 3
               /\ Contains(exc[j], "overloaded_error"))
                 => /\ pc'[j] = "205"
                    /\ disk'[j].status = "failed"
                    /\ disk'[j].error = exc[j]
                    /\ j \notin DOMAIN outputs'
      ]_vars

\* three attempts failed with the overloaded error and the job was recorded
\* as failed with that error
C16_Witness ==
    \E j \in DOMAIN crew :
        /\ pc[j] = "205"
        /\ crew[j].variant = "data"
        /\ crew[j].retry_count = 3
        /\ exc[j] = <<"overloaded_error">>
        /\ disk[j].status = "failed"
        /\ disk[j].error = <<"overloaded_error">>
        /\ j \notin DOMAIN outputs

C18_InputErrorsRejected ==
    \A j \in DOMAIN active_tasks :
        /\ uploads[j].readable
        /\ Designated(active_tasks[j].category_columns) \subseteq uploads[j].df.cols

\* C19: a step of job j (its submission, a tracker operation, a step of its
\* runner) leaves the persisted record and the registry entry of every other
\* job as they are.
C19_JobsIsolated ==
    [][\A j \in Jobs :
         (pc'[j] # pc[j] /\ pc'[j] # "killed") =>
            \A k \in Jobs \ {j} :
                /\ k \in DOMAIN disk' <=> k \in DOMAIN disk
                /\ k \in DOMAIN disk => disk'[k] = disk[k]
                /\ k \in DOMAIN active_tasks' <=> k \in DOMAIN active_tasks
                /\ k \in DOMAIN active_tasks => active_tasks'[k] = active_tasks[k]
      ]_vars

\* two jobs are in the middle of their runs, with different records
C19_Witness ==
    \E j, k \in DOMAIN disk :
        /\ pc[j] = "A226" /\ disk[j].progress = 50
        /\ pc[k] = "D163" /\ disk[k].progress = 70
        /\ active_tasks[j] # active_tasks[k]

\* C20: every job whose background task has been queued eventually has a
\* persisted status of completed or failed, while the host keeps running,
\* the external calls return or raise and the tracker writes succeed.
C20_JobsTerminate ==
    \A j \in Jobs :
        (pc[j] = "queued") ~> (j \in DOMAIN disk /\ disk[j].status \in Terminal)

\* a job of each crew ran to its end: one failed on its input, one completed
C20_Witness ==
    \E j, k \in DOMAIN disk :
        /\ pc[j] = "done" /\ disk[j].status = "failed"
        /\ disk[j].error = <<"EmptyDataError">>
        /\ pc[k] = "done" /\ disk[k].status = "completed"
        /\ k \in DOMAIN outputs /\ outputs[k].by = "apply"

\* C21: missing category cells do not fail a job: the only exceptions that
\* leave the fallback are those of its read and of its write, and a job
\* whose fallback wrote a table in which category cells are still missing
\* has, once its runner has finished, a completed record whose result is
\* the path of the written table.
C21_PartialFillCompletes ==
    [][\A j \in Jobs :
         /\ (pc[j] = "A232" /\ pc'[j] = "except")
               => exc'[j] \in {<<"EmptyDataError">>, <<"OSError">>}
         /\ (/\ j \in DOMAIN outputs'
             /\ outputs'[j].by = "fallback"
             /\ HasMissing(outputs'[j].file.df))
               => /\ pc'[j] \in {"A240", "194", "197", "done", "killed"}
                  /\ pc'[j] \in {"197", "done"} =>
                        /\ disk'[j].status = "completed"
                        /\ disk'[j].result = OutputPath(j)
                        /\ exists(outputs', disk'[j].result)
      ]_vars

\* a job ended completed on a table the fallback left partly unfilled
C21_Witness ==
    \E j \in DOMAIN outputs :
        /\ outputs[j].by = "fallback"
        /\ HasMissing(outputs[j].file.df)
        /\ outputs[j].file.df # uploads[j].df
        /\ pc[j] = "done"
        /\ disk[j].status = "completed"

\* C22: creating a tracker for an id persists the initial record, whatever
\* the record file of the id held before (nothing, a record at any stage):
\* creating again gives the record which creating once gives.
C22_CreateIdempotent ==
    response.op = "create" =>
        /\ response.task_id \in DOMAIN disk
        /\ disk[response.task_id] =
              [status |-> "initializing", progress |-> 0,
               message |-> <<"Starting task...">>, result |-> None,
               error |-> None]

\* a tracker was created again for an id whose record was completed
C22_Witness ==
    /\ response.op = "create"
    /\ response.body # None
    /\ response.body.status = "completed"
    /\ disk[response.task_id].status = "initializing"

C23_ResultAndErrorMatchStatus ==
    \A j \in DOMAIN disk :
        disk[j] # Truncated =>
            /\ disk[j].result # None => disk[j].status = "completed"
            /\ disk[j].error # None => disk[j].status = "failed"

\* C25: a status read answered before the runner of the job has called
\* complete or fail returns status initializing or processing, never
\* completed, including the reads after the last progress update to 1.0
C25_NoCompletedBeforeRunnerEnds ==
    (/\ response.op = "status"
     /\ response.code = 200
     /\ pc[response.task_id] \notin {"197", "205", "done"})
        => response.body.status \in {"initializing", "processing"}

\* a status read between the update to 1.0 and the call of complete
C25_Witness ==
    /\ response.op = "status"
    /\ response.code = 200
    /\ pc[response.task_id] = "194"
    /\ response.body.progress = 100
    /\ response.body.status = "processing"

\* the category cells of the table of this run
CategoryCells ==
    (1..Len(fb.df.rows)) \X ({CategoryID, CategoryLabel} \cap fb.df.cols)

\* the cells missing in the input and not missing in the table now
FilledCells ==
    {x \in CategoryCells : /\ isna(fb.input.df.rows[x[1]][x[2]])
                           /\ ~isna(fb.df.rows[x[1]][x[2]])}

\* the fallback reaches line 325 and prints its two counters
Reported == fb.pc \in {"save", "done"} /\ fb.caught = None /\ fb.input.readable

\* C26: the filled-cells counter the fallback reports equals the number of
\* category cells that are missing in the input and non-missing in the
\* output, each counted once
C26_CounterIsCellsFilled ==
    Reported => fb.enrichment_count = Cardinality(FilledCells)

\* the rows of the same group as row i in the input, other than i
GroupMates(i) ==
    {d \in (1..Len(fb.input.df.rows)) \ {i} :
        /\ ClusterID \in fb.input.df.cols
        /\ ~isna(fb.input.df.rows[i][ClusterID])
        /\ fb.input.df.rows[d][ClusterID] = fb.input.df.rows[i][ClusterID]}

\* C27: a cell the fallback changes is a category cell that was missing,
\* and it receives either the value another row of the same group holds in
\* that column in the input (pass 1) or a value of the lookup result for
\* that row (pass 2); rows of groups of size 1 are not changed by pass 1,
\* and no other value is ever written
C27_FillSources ==
    [][fb.pc \in {"pass1", "pass2"} =>
        \A i \in 1..Len(fb.df.rows), c \in fb.df.cols :
            fb'.df.rows[i][c] # fb.df.rows[i][c] =>
                /\ c \in {CategoryID, CategoryLabel}
                /\ isna(fb.df.rows[i][c])
                /\ \/ /\ fb.pc = "pass1"
                      /\ \E d \in GroupMates(i) :
                            fb'.df.rows[i][c] = fb.input.df.rows[d][c]
                   \/ /\ fb.pc = "pass2"
                      /\ i = fb.cursor
                      /\ fb'.looked = Append(fb.looked, i)
                      /\ fb'.df.rows[i][c] \in LookupVals]_vars

\* a run that filled a cell from a group mate and a cell, in a row of a
\* group of size 1, from a lookup, and left a third cell missing
C27_Witness ==
    /\ fb.pc = "done"
    /\ fb.df.cols = AllCols
    /\ \E x \in FilledCells :
         /\ \A n \in 1..Len(fb.looked) : fb.looked[n] # x[1]
         /\ GroupMates(x[1]) # {}
    /\ \E x \in FilledCells :
         /\ \E n \in 1..Len(fb.looked) : fb.looked[n] = x[1]
         /\ GroupMates(x[1]) = {}
    /\ \E x \in CategoryCells : isna(fb.df.rows[x[1]][x[2]])

\* C28: no lookup is issued before group propagation has finished for
\* every group, and a lookup is issued for a row only if that row has a
\* missing Category ID or Category Label after pass 1
C28_PassesOrdered ==
    [][fb'.looked # fb.looked =>
        /\ fb.pc = "pass2"
        /\ fb.keys = {}
        /\ fb'.looked = Append(fb.looked, fb.cursor)
        /\ \E c \in {CategoryID, CategoryLabel} \cap fb.df.cols :
              isna(fb.df.rows[fb.cursor][c])
        /\ fb.df.cols = AllCols =>
             \E c \in {CategoryID, CategoryLabel} :
                isna(Pass1Table(fb.input.df).rows[fb.cursor][c])]_vars

\* a table with two groups that pass 1 filled in part, and a lookup issued
\* for a row pass 1 left with a missing cell
C28_Witness ==
    /\ fb.pc \in {"pass2", "save"}
    /\ fb.df.cols = AllCols
    /\ Cardinality(GroupKeys(fb.input.df)) = 2
    /\ fb.looked # <<>>
    /\ \E x \in FilledCells :
         \A n \in 1..Len(fb.looked) : fb.looked[n] # x[1]

\* C29: the rows-processed counter the fallback reports counts each row at
\* most once: it never exceeds the number of rows of the table
C29_RowsCountedOnce ==
    Reported => fb.rows_processed <= Len(fb.df.rows)

\* C30: whenever the record of a job says completed, a file exists at the
\* path stored in result, produced by the agents or written by the
\* fallback; a run that could not produce the file never ends completed
C30_CompletedHasFile ==
    \A j \in DOMAIN disk :
        disk[j].status = "completed" =>
            /\ disk[j].result = OutputPath(j)
            /\ exists(outputs, disk[j].result)

\* one job completed on the agents' file and one on the fallback's
C30_Witness ==
    /\ \E j \in DOMAIN disk :
         /\ disk[j].status = "completed"
         /\ outputs[j].by = "agent"
    /\ \E j \in DOMAIN disk :
         /\ disk[j].status = "completed"
         /\ outputs[j].by = "fallback"

====
